---------------------------- MODULE Spec2Model ----------------------------
(***************************************************************************)
(* A model of the numers front end: the lexer (tokenize), the infix to     *)
(* postfix converter (infix_to_rpn), the statement builder (parse) and the *)
(* code generator (compile, compile_expr, VariableCounter).                *)
(*                                                                         *)
(* Text is a sequence of one-character strings.  Every function of the     *)
(* program is a loop over its input; each loop is modelled by a step       *)
(* operator on a record of the function's locals, one action fires one     *)
(* iteration, and the function as a whole is the iteration of the step.    *)
(***************************************************************************)
EXTENDS Integers, Sequences, FiniteSets, TLC

VARIABLES lexer, conv, builder, codegen, exprgen, varcounter, history

vars == <<lexer, conv, builder, codegen, exprgen, varcounter, history>>

Last(s) == s[Len(s)]

Front(s) == SubSeq(s, 1, Len(s) - 1)

(***************************************************************************)
(* Sequences over S of length at most n.                                   *)
(***************************************************************************)
SeqsUpTo(S, n) == UNION {[1..k -> S] : k \in 0..n}

(***************************************************************************)
(* ParseToken                                                              *)
(***************************************************************************)
NoName == <<>>

NoNum == <<0, 0>>

Unit(k) == [kind |-> k, name |-> NoName, num |-> NoNum]

Add == Unit("Add")

Subtract == Unit("Subtract")

Multiply == Unit("Multiply")

Divide == Unit("Divide")

Exponent == Unit("Exponent")

Assign == Unit("Assign")

OpenParen == Unit("OpenParen")

CloseParen == Unit("CloseParen")

Comma == Unit("Comma")

Identifier(n) == [kind |-> "Identifier", name |-> n, num |-> NoNum]

\* Number(f64): the value is the decimal <<m, s>> = m / 10^s in lowest form.
Number(v) == [kind |-> "Number", name |-> NoName, num |-> v]

is_operator(t) == t.kind \in {"Add", "Subtract", "Multiply", "Divide", "Exponent"}

presidence(t) ==
    CASE t.kind \in {"Add", "Subtract"} -> 2
      [] t.kind \in {"Multiply", "Divide"} -> 3
      [] t.kind = "Exponent" -> 4
      [] OTHER -> 1

is_left_associative(t) == t.kind \in {"Add", "Subtract", "Multiply", "Divide"}

is_number(t) == t.kind = "Number"

is_identifier(t) == t.kind = "Identifier"

(***************************************************************************)
(* CompileError, and the errors anyhow wraps around it.  context is the    *)
(* list of line numbers attached by .context("on line N").                 *)
(***************************************************************************)
NoError == [kind |-> "None", context |-> <<>>]

InvalidCharacter(ch) == [kind |-> "InvalidCharacter", ch |-> ch, context |-> <<>>]

InvalidAssignment == [kind |-> "InvalidAssignment", context |-> <<>>]

InvalidToken(t) == [kind |-> "InvalidToken", token |-> t, context |-> <<>>]

OperandError == [kind |-> "OperandError", context |-> <<>>]

NameError(n) == [kind |-> "NameError", name |-> n, context |-> <<>>]

\* number.parse::<f64>() failed, with the context naming the literal
ParseFloatError(text) == [kind |-> "ParseFloatError", literal |-> text, context |-> <<>>]

\* .context(format!("on line {line_num}"))
WithContext(e, n) == [e EXCEPT !.context = Append(@, n)]

(***************************************************************************)
(* Character classes of the lexer                                          *)
(***************************************************************************)
Digit == {"0", "1", "2", "3", "4", "5", "6", "7", "8", "9"}

DIGITS == {"."} \cup Digit

LowerCase == {"a", "b", "c", "d", "e", "f", "g", "h", "i", "j", "k", "l", "m",
              "n", "o", "p", "q", "r", "s", "t", "u", "v", "w", "x", "y", "z"}

UpperCase == {"A", "B", "C", "D", "E", "F", "G", "H", "I", "J", "K", "L", "M",
              "N", "O", "P", "Q", "R", "S", "T", "U", "V", "W", "X", "Y", "Z"}

ALPHABET == {"_"} \cup LowerCase \cup UpperCase

\* the pattern '0'..'9' | '.' : the range excludes its upper end
NumberStart == (Digit \ {"9"}) \cup {"."}

\* the pattern 'a'..='z' | 'A'..='Z' | '_'
IdentifierStart == LowerCase \cup UpperCase \cup {"_"}

\* the blanks without the tab
BlankSpaceOnly == {" "}

\* the pattern ' ' | '\t'
Blank == {" ", "\t"}

SymbolChars == {"+", "-", "*", "/", "^", "=", ",", "(", ")"}

SymbolToken(ch) ==
    CASE ch = "+" -> Add
      [] ch = "-" -> Subtract
      [] ch = "*" -> Multiply
      [] ch = "/" -> Divide
      [] ch = "^" -> Exponent
      [] ch = "=" -> Assign
      [] ch = "," -> Comma
      [] ch = "(" -> OpenParen
      [] ch = ")" -> CloseParen

(***************************************************************************)
(* str::parse::<f64> on a run of DIGITS characters                         *)
(***************************************************************************)
DigitVal(c) ==
    CASE c = "0" -> 0 [] c = "1" -> 1 [] c = "2" -> 2 [] c = "3" -> 3
      [] c = "4" -> 4 [] c = "5" -> 5 [] c = "6" -> 6 [] c = "7" -> 7
      [] c = "8" -> 8 [] c = "9" -> 9

RECURSIVE CountOf(_, _)
CountOf(s, c) ==
    IF s = <<>> THEN 0
    ELSE (IF Last(s) = c THEN 1 ELSE 0) + CountOf(Front(s), c)

\* the digits of s read as one integer, the point left out
RECURSIVE Mantissa(_)
Mantissa(s) ==
    IF s = <<>> THEN 0
    ELSE IF Last(s) = "." THEN Mantissa(Front(s))
    ELSE 10 * Mantissa(Front(s)) + DigitVal(Last(s))

\* the number of digits after the point
RECURSIVE Scale(_)
Scale(s) ==
    IF s = <<>> \/ CountOf(s, ".") = 0 THEN 0
    ELSE IF Last(s) = "." THEN 0
    ELSE 1 + Scale(Front(s))

RECURSIVE Lowest(_, _)
Lowest(m, s) ==
    IF s > 0 /\ m % 10 = 0 THEN Lowest(m \div 10, s - 1) ELSE <<m, s>>

ParseF64(text) ==
    IF CountOf(text, ".") <= 1 /\ Len(text) - CountOf(text, ".") >= 1
    THEN [ok |-> TRUE, val |-> Lowest(Mantissa(text), Scale(text))]
    ELSE [ok |-> FALSE, val |-> NoNum]

(***************************************************************************)
(* tokenize                                                                *)
(***************************************************************************)
\* the index of the last character of the run of class-C characters that
\* follows position i
RECURSIVE RunEnd(_, _, _)
RunEnd(s, i, C) ==
    IF i < Len(s) /\ s[i + 1] \in C THEN RunEnd(s, i + 1, C) ELSE i

TokenizeStart(line) ==
    [source |-> line, pos |-> 0, tokens |-> <<>>, result |-> "running", err |-> NoError]

TokenizeFail(st, e) == [st EXCEPT !.result = "err", !.err = e, !.tokens = <<>>]

\* one iteration of `while let Some(ch) = chars.next()`, or the return after it
TokenizeStep(st) ==
    IF st.pos >= Len(st.source) THEN [st EXCEPT !.result = "ok"]
    ELSE
    LET at == st.pos + 1
        ch == st.source[at]
    IN  CASE ch \in NumberStart ->
               LET end == RunEnd(st.source, at, DIGITS)
                   number == SubSeq(st.source, at, end)
                   parsed == ParseF64(number)
               IN  IF parsed.ok
                   THEN [st EXCEPT !.pos = end, !.tokens = Append(@, Number(parsed.val))]
                   ELSE TokenizeFail(st, ParseFloatError(number))
          [] ch \in IdentifierStart ->
               LET end == RunEnd(st.source, at, ALPHABET)
                   identifier == SubSeq(st.source, at, end)
               IN  [st EXCEPT !.pos = end, !.tokens = Append(@, Identifier(identifier))]
          [] ch \in SymbolChars ->
               [st EXCEPT !.pos = at, !.tokens = Append(@, SymbolToken(ch))]
          [] ch \in Blank -> [st EXCEPT !.pos = at]
          [] OTHER -> TokenizeFail(st, InvalidCharacter(ch))

RECURSIVE TokenizeRun(_)
TokenizeRun(st) == IF st.result = "running" THEN TokenizeRun(TokenizeStep(st)) ELSE st

\* tokenize(source) -> Result<Vec<ParseToken>>
tokenize(line) ==
    LET st == TokenizeRun(TokenizeStart(line))
    IN  [ok |-> st.result = "ok", val |-> st.tokens, err |-> st.err]

(***************************************************************************)
(* infix_to_rpn                                                            *)
(***************************************************************************)
\* should_pop with the associativity test dropped
should_pop_by_precedence(t, stack) ==
    IF stack = <<>> THEN FALSE
    ELSE LET last == Last(stack)
         IN  /\ last.kind # "OpenParen"
             /\ presidence(last) >= presidence(t)

\* the closure should_pop(t, stack)
should_pop(t, stack) ==
    IF stack = <<>> THEN FALSE
    ELSE LET last == Last(stack)
         IN  /\ last.kind # "OpenParen"
             /\ \/ presidence(last) > presidence(t)
                \/ presidence(last) >= presidence(t) /\ is_left_associative(t)

\* the loop of the CloseParen arm
RECURSIVE CloseParenPop(_, _)
CloseParenPop(stack, output) ==
    IF stack = <<>> THEN [stack |-> stack, output |-> output]
    ELSE LET top == Last(stack)
             rest == Front(stack)
         IN  IF top.kind = "OpenParen"
             THEN IF rest # <<>> /\ is_identifier(Last(rest))
                  THEN [stack |-> Front(rest), output |-> Append(output, Last(rest))]
                  ELSE [stack |-> rest, output |-> output]
             ELSE CloseParenPop(rest, Append(output, top))

\* the loop of the Comma arm
RECURSIVE CommaPop(_, _)
CommaPop(stack, output) ==
    IF stack = <<>> THEN [stack |-> stack, output |-> output]
    ELSE LET top == Last(stack)
             rest == Front(stack)
         IN  IF top.kind = "OpenParen"
             THEN [stack |-> rest, output |-> output]
             ELSE CommaPop(rest, Append(output, top))

\* the loop of the operator arm
RECURSIVE OperatorPop(_, _, _)
OperatorPop(t, stack, output) ==
    IF should_pop(t, stack)
    THEN OperatorPop(t, Front(stack), Append(output, Last(stack)))
    ELSE [stack |-> Append(stack, t), output |-> output]

\* stack.iter().rev().for_each(|op| output.push(op.clone()))
RECURSIVE Flush(_, _)
Flush(stack, output) ==
    IF stack = <<>> THEN output ELSE Flush(Front(stack), Append(output, Last(stack)))

RpnStart(expr) ==
    [expr |-> expr, next |-> 1, stack |-> <<>>, output |-> <<>>, done |-> FALSE]

next_is_opening(st) ==
    st.next < Len(st.expr) /\ st.expr[st.next + 1].kind = "OpenParen"

\* the match arm the token at st.next takes
RpnArm(st) ==
    LET token == st.expr[st.next]
    IN  CASE token.kind = "OpenParen" -> "OpenParen"
          [] token.kind = "CloseParen" -> "CloseParen"
          [] token.kind = "Comma" -> "Comma"
          [] token.kind = "Identifier" /\ next_is_opening(st) -> "CallHead"
          [] token.kind \in {"Identifier", "Number"} -> "Operand"
          [] OTHER -> "Operator"

\* one iteration of `while let Some(token) = tokens.next()`, or the flush
\* and return after it
RpnStep(st) ==
    IF st.next > Len(st.expr)
    THEN [st EXCEPT !.output = Flush(st.stack, st.output), !.done = TRUE]
    ELSE
    LET token == st.expr[st.next]
        arm == RpnArm(st)
        moved == CASE arm = "OpenParen" ->
                        [stack |-> Append(st.stack, token), output |-> st.output]
                   [] arm = "CloseParen" -> CloseParenPop(st.stack, st.output)
                   [] arm = "Comma" -> CommaPop(st.stack, st.output)
                   [] arm = "CallHead" ->
                        [stack |-> st.stack \o <<OpenParen, token>>, output |-> st.output]
                   [] arm = "Operand" ->
                        [stack |-> st.stack, output |-> Append(st.output, token)]
                   [] arm = "Operator" -> OperatorPop(token, st.stack, st.output)
    IN  [st EXCEPT !.next = @ + 1, !.stack = moved.stack, !.output = moved.output]

RECURSIVE RpnRun(_)
RpnRun(st) == IF st.done THEN st ELSE RpnRun(RpnStep(st))

\* infix_to_rpn(expr) -> Result<Vec<ParseToken>>; it has no failing path
infix_to_rpn(expr) == [ok |-> TRUE, val |-> RpnRun(RpnStart(expr)).output, err |-> NoError]

(***************************************************************************)
(* parse                                                                   *)
(***************************************************************************)
Declaration(name, args, body) ==
    [type |-> "Declaration", name |-> name, args |-> args, body |-> body]

Expression(body) == [type |-> "Expression", body |-> body]

\* source.split('\n'): the pieces between the newlines, at least one piece
RECURSIVE Split(_)
Split(text) ==
    IF text = <<>> THEN <<<<>>>>
    ELSE LET pieces == Split(Front(text))
         IN  IF Last(text) = "\n" THEN Append(pieces, <<>>)
             ELSE [pieces EXCEPT ![Len(pieces)] = Append(@, Last(text))]

\* tokens.contains(&ParseToken::Assign)
ContainsAssign(tokens) == \E i \in 1..Len(tokens) : tokens[i].kind = "Assign"

\* tokens.split_once(|t| t == &ParseToken::Assign)
SplitOnce(tokens) ==
    LET at == CHOOSE i \in 1..Len(tokens) :
                  /\ tokens[i].kind = "Assign"
                  /\ \A j \in 1..(i - 1) : tokens[j].kind # "Assign"
    IN  [id |-> SubSeq(tokens, 1, at - 1), expr |-> SubSeq(tokens, at + 1, Len(tokens))]

Names(tokens) == [i \in 1..Len(tokens) |-> tokens[i].name]

\* split_declaration that does not skip the name and takes any first token
split_declaration_unchecked(declaration) ==
    IF declaration # <<>>
    THEN [ok |-> TRUE, name |-> declaration[1].name,
          args |-> Names(SelectSeq(declaration, is_identifier)),
          err |-> NoError]
    ELSE [ok |-> FALSE, name |-> <<>>, args |-> <<>>, err |-> InvalidAssignment]

\* split_declaration(declaration) -> Result<(String, Vec<String>)>
split_declaration(declaration) ==
    IF declaration # <<>> /\ is_identifier(declaration[1])
    THEN [ok |-> TRUE, name |-> declaration[1].name,
          args |-> Names(SelectSeq(SubSeq(declaration, 2, Len(declaration)), is_identifier)),
          err |-> NoError]
    ELSE [ok |-> FALSE, name |-> <<>>, args |-> <<>>, err |-> InvalidAssignment]

ParseStart(source) ==
    [source |-> source, lines |-> Split(source), line_num |-> 0, statements |-> <<>>,
     result |-> "running", err |-> NoError]

ParseFail(st, e) == [st EXCEPT !.result = "err", !.err = e, !.statements = <<>>]

\* the way the body of the loop goes for the line at st.line_num
ParseArm(st) ==
    LET tokens == tokenize(st.lines[st.line_num + 1])
    IN  IF ~tokens.ok THEN "LexError"
        ELSE IF ~ContainsAssign(tokens.val) THEN "Expression"
        ELSE IF split_declaration(SplitOnce(tokens.val).id).ok THEN "Declaration"
        ELSE "InvalidAssignment"

\* one iteration of `for (line_num, line) in source.split('\n').enumerate()`,
\* or the return after it
ParseStep(st) ==
    IF st.line_num >= Len(st.lines) THEN [st EXCEPT !.result = "ok"]
    ELSE
    LET line_num == st.line_num
        tokens == tokenize(st.lines[line_num + 1])
    IN  IF ~tokens.ok THEN ParseFail(st, WithContext(tokens.err, line_num))
        ELSE IF ContainsAssign(tokens.val)
        THEN LET parts == SplitOnce(tokens.val)
                 decl == split_declaration(parts.id)
                 body == infix_to_rpn(parts.expr)
             IN  IF ~decl.ok THEN ParseFail(st, decl.err)
                 ELSE IF ~body.ok THEN ParseFail(st, WithContext(body.err, line_num))
                 ELSE [st EXCEPT !.line_num = @ + 1,
                                 !.statements =
                                     Append(@, Declaration(decl.name, decl.args, body.val))]
        ELSE LET rpn == infix_to_rpn(tokens.val)
             IN  IF ~rpn.ok THEN ParseFail(st, WithContext(rpn.err, line_num))
                 ELSE [st EXCEPT !.line_num = @ + 1,
                                 !.statements = Append(@, Expression(rpn.val))]

RECURSIVE ParseRun(_)
ParseRun(st) == IF st.result = "running" THEN ParseRun(ParseStep(st)) ELSE st

\* parse(source) -> Result<Vec<Statement>>
parse(source) ==
    LET st == ParseRun(ParseStart(source))
    IN  [ok |-> st.result = "ok", val |-> st.statements, err |-> st.err]

(***************************************************************************)
(* VariableCounter                                                         *)
(***************************************************************************)
DigitChar(d) ==
    CASE d = 0 -> "0" [] d = 1 -> "1" [] d = 2 -> "2" [] d = 3 -> "3"
      [] d = 4 -> "4" [] d = 5 -> "5" [] d = 6 -> "6" [] d = 7 -> "7"
      [] d = 8 -> "8" [] d = 9 -> "9"

\* the decimal text of n >= 0, as format!("{}", n) writes it
RECURSIVE FormatInt(_)
FormatInt(n) ==
    IF n < 10 THEN <<DigitChar(n)>> ELSE Append(FormatInt(n \div 10), DigitChar(n % 10))

\* format!("%{}_{}", identifier, count)
FormatVar(identifier, count) == <<"%">> \o identifier \o <<"_">> \o FormatInt(count)

\* format!("%_{}", tempcount)
FormatTemp(tempcount) == <<"%", "_">> \o FormatInt(tempcount)

\* VariableCounter::new(); pairs is a function from identifiers to counts
NewVariableCounter == [tempcount |-> 0, pairs |-> <<>>]

\* next_var(&mut self, identifier) -> String
next_var(counter, identifier) ==
    IF identifier \in DOMAIN counter.pairs
    THEN [counter |-> counter, name |-> FormatVar(identifier, counter.pairs[identifier])]
    ELSE [counter |-> [counter EXCEPT !.pairs = @ @@ (identifier :> 0)],
          name |-> FormatVar(identifier, 0)]

\* get(&self, identifier) -> Result<String>
get(counter, identifier) ==
    IF identifier \in DOMAIN counter.pairs
    THEN [ok |-> TRUE, name |-> FormatVar(identifier, counter.pairs[identifier]),
          err |-> NoError]
    ELSE [ok |-> FALSE, name |-> <<>>, err |-> NameError(identifier)]

\* next_temp(&mut self) -> String
next_temp(counter) ==
    [counter |-> [counter EXCEPT !.tempcount = @ + 1],
     name |-> FormatTemp(counter.tempcount + 1)]

\* current_temp(&self) -> String
current_temp(counter) == FormatTemp(counter.tempcount)

(***************************************************************************)
(* compile_expr                                                            *)
(***************************************************************************)
\* Statement::new(identifier, operation) of the compiler
Instruction(identifier, operation) ==
    [identifier |-> identifier, assign_type |-> "Double", operation |-> operation]

OperationAdd(x, y) == [op |-> "Add", x |-> x, y |-> y]

OperationCall(func) == [op |-> "Call", func |-> func]

CompileExprStart(expr, counter) ==
    [expr |-> expr, next |-> 1, compiled |-> <<>>, stack |-> <<>>, counter |-> counter,
     result |-> "running", err |-> NoError, result_id |-> <<>>]

CompileExprFail(st, e) ==
    [st EXCEPT !.result = "err", !.err = e, !.compiled = <<>>]

\* compile_expr with an operand arm: a Number or an Identifier is pushed on
\* the stack as an operand name
CompileExprStepWithOperands(st) ==
    IF st.next > Len(st.expr)
    THEN [st EXCEPT !.result = "ok", !.result_id = current_temp(st.counter)]
    ELSE
    LET token == st.expr[st.next]
    IN  IF is_operator(token)
        THEN IF Len(st.stack) >= 2
             THEN LET temp == next_temp(st.counter)
                  IN  [st EXCEPT !.next = @ + 1,
                                 !.stack = Append(SubSeq(@, 1, Len(@) - 2),
                                                  Identifier(temp.name)),
                                 !.counter = temp.counter,
                                 !.compiled =
                                     Append(@, Instruction(temp.name,
                                               OperationAdd(st.stack[Len(st.stack) - 1].name,
                                                            st.stack[Len(st.stack)].name)))]
             ELSE CompileExprFail(st, OperandError)
        ELSE IF token.kind \in {"Number", "Identifier"}
        THEN [st EXCEPT !.next = @ + 1, !.stack = Append(@, Identifier(token.name))]
        ELSE CompileExprFail(st, InvalidToken(token))

\* one iteration of `for token in expr`, or the return after it
CompileExprStep(st) ==
    IF st.next > Len(st.expr)
    THEN [st EXCEPT !.result = "ok", !.result_id = current_temp(st.counter)]
    ELSE
    LET token == st.expr[st.next]
    IN  IF is_operator(token)
        THEN IF /\ Len(st.stack) >= 2
                /\ is_identifier(st.stack[Len(st.stack)])
                /\ is_identifier(st.stack[Len(st.stack) - 1])
             THEN LET y == st.stack[Len(st.stack)].name
                      x == st.stack[Len(st.stack) - 1].name
                      temp == next_temp(st.counter)
                  IN  [st EXCEPT !.next = @ + 1,
                                 !.stack = SubSeq(@, 1, Len(@) - 2),
                                 !.counter = temp.counter,
                                 !.compiled =
                                     Append(@, Instruction(temp.name, OperationAdd(x, y)))]
             ELSE CompileExprFail(st, OperandError)
        ELSE CompileExprFail(st, InvalidToken(token))

RECURSIVE CompileExprRun(_)
CompileExprRun(st) == IF st.result = "running" THEN CompileExprRun(CompileExprStep(st)) ELSE st

\* compile_expr(expr, counter) -> Result<(Vec<Statement>, String)>, with the
\* counter as the call leaves it
compile_expr(expr, counter) ==
    LET st == CompileExprRun(CompileExprStart(expr, counter))
    IN  [ok |-> st.result = "ok", compiled |-> st.compiled, result_id |-> st.result_id,
         counter |-> st.counter, err |-> st.err]

(***************************************************************************)
(* compile                                                                 *)
(***************************************************************************)
CompileStart(statements) ==
    [statements |-> statements, next |-> 1, main_func |-> <<>>, functions |-> <<>>,
     varcounter |-> NewVariableCounter, result |-> "running", err |-> NoError]

CompileFail(st, e) == [st EXCEPT !.result = "err", !.err = e]

\* the Declaration arm: its body is empty
CompileDeclarationStep(st) == [st EXCEPT !.next = @ + 1]

\* The Expression arm.  After the instructions of compile_expr the source
\* pushes Statement::new(identifier, operation), where neither name is
\* bound: the instruction pushed is any one, passed in here.
CompileExpressionStep(st, identifier, operation) ==
    LET r == compile_expr(st.statements[st.next].body, st.varcounter)
    IN  IF ~r.ok THEN CompileFail([st EXCEPT !.varcounter = r.counter], r.err)
        ELSE [st EXCEPT !.next = @ + 1,
                        !.varcounter = r.counter,
                        !.main_func = (@ \o r.compiled)
                                        \o <<Instruction(identifier, operation)>>]

\* the return after the loop
CompileReturnStep(st) == [st EXCEPT !.result = "ok"]

(***************************************************************************)
(* Inputs of the converter: the well-formed infix token sequences over an  *)
(* alphabet A of at most n tokens.  An operand is a Number, an Identifier, *)
(* a parenthesised expression or a call f(e, ..., e) of zero or more       *)
(* arguments; operands are separated by operators.                         *)
(***************************************************************************)
GrammarStart == [ok |-> TRUE, mode |-> "operand", parens |-> <<>>]

GrammarBad == [ok |-> FALSE, mode |-> "operand", parens |-> <<>>]

GrammarStep(g, t) ==
    IF ~g.ok THEN GrammarBad
    ELSE IF g.mode \in {"operand", "callOpen"}
    THEN CASE t.kind = "Number" -> [g EXCEPT !.mode = "operator"]
           [] t.kind = "Identifier" -> [g EXCEPT !.mode = "afterId"]
           [] t.kind = "OpenParen" ->
                [g EXCEPT !.mode = "operand", !.parens = Append(@, "group")]
           [] t.kind = "CloseParen" /\ g.mode = "callOpen" ->
                [g EXCEPT !.mode = "operator", !.parens = Front(@)]
           [] OTHER -> GrammarBad
    ELSE CASE is_operator(t) -> [g EXCEPT !.mode = "operand"]
           [] t.kind = "CloseParen" /\ g.parens # <<>> ->
                [g EXCEPT !.mode = "operator", !.parens = Front(@)]
           [] t.kind = "Comma" /\ g.parens # <<>> /\ Last(g.parens) = "call" ->
                [g EXCEPT !.mode = "operand"]
           [] t.kind = "OpenParen" /\ g.mode = "afterId" ->
                [g EXCEPT !.mode = "callOpen", !.parens = Append(@, "call")]
           [] OTHER -> GrammarBad

RECURSIVE Grammar(_)
Grammar(s) == IF s = <<>> THEN GrammarStart ELSE GrammarStep(Grammar(Front(s)), Last(s))

WellFormed(s) ==
    LET g == Grammar(s)
    IN  g.ok /\ g.mode \in {"operator", "afterId"} /\ g.parens = <<>>

\* the prefixes of length k that some well-formed sequence of at most n
\* tokens extends
RECURSIVE Prefixes(_, _, _)
Prefixes(A, n, k) ==
    IF k = 0 THEN {<<>>}
    ELSE {s \in {Append(q, t) : q \in Prefixes(A, n, k - 1), t \in A} :
            LET g == Grammar(s)
            IN  /\ g.ok
                /\ Len(g.parens) + (IF g.mode = "operand" THEN 1 ELSE 0) <= n - k}

WellFormedExprs(A, n) == {s \in UNION {Prefixes(A, n, k) : k \in 1..n} : WellFormed(s)}

Operators == {Add, Subtract, Multiply, Divide, Exponent}

\* the number of distinct Number literals in the arithmetic inputs
NumVals == 2

\* the longest arithmetic input, in tokens
MaxArithLen == 7

\* the longest input with calls, in tokens
MaxCallLen == 8

ArithTokens == {Number(<<v, 0>>) : v \in 1..NumVals} \cup Operators \cup {OpenParen, CloseParen}

CallTokens ==
    {Number(<<1, 0>>), Identifier(<<"f">>), Add, Exponent, OpenParen, CloseParen, Comma}

\* Each input token is labelled with its position in the input (at), which
\* no operator of the converter reads, so that a token of the output can be
\* traced to the input token it is a copy of.
Labelled(expr) ==
    [i \in 1..Len(expr) |->
        [kind |-> expr[i].kind, name |-> expr[i].name, num |-> expr[i].num, at |-> i]]

\* the input position a token was copied from, 0 for a token the converter made
At(t) == IF "at" \in DOMAIN t THEN t.at ELSE 0

ConverterInputs ==
    {Labelled(expr) : expr \in WellFormedExprs(ArithTokens, MaxArithLen)
                             \cup WellFormedExprs(CallTokens, MaxCallLen)}

(***************************************************************************)
(* Inputs of the lexer: the lines of at most MaxLineLen characters over    *)
(* the symbols, the blanks, the digits and the point, some letters and a   *)
(* character no token starts with.                                         *)
(***************************************************************************)
MaxLineLen == 3

LexerChars ==
    {"+", "-", "*", "/", "^", "=", ",", "(", ")", " ", "\t",
     "0", "1", "2", "3", "4", "5", "6", "7", "8", "9", ".", "a", "Z", "_", "}"}

LexerInputs == SeqsUpTo(LexerChars, MaxLineLen)

(***************************************************************************)
(* The lexer run on one line                                               *)
(***************************************************************************)
LexerIdle == [TokenizeStart(<<>>) EXCEPT !.result = "idle"]

ConvIdle == [RpnStart(<<>>) EXCEPT !.done = TRUE]

CodegenIdle == [CompileStart(<<>>) EXCEPT !.result = "idle"]

ExprgenIdle == [CompileExprStart(<<>>, NewVariableCounter) EXCEPT !.result = "idle"]

BuilderIdle == [ParseStart(<<>>) EXCEPT !.result = "idle"]

LexerCh == lexer.source[lexer.pos + 1]

LexerScanning == lexer.result = "running" /\ lexer.pos < Len(lexer.source)

LexNumber ==
    /\ LexerScanning /\ LexerCh \in NumberStart
    /\ lexer' = TokenizeStep(lexer)
    /\ UNCHANGED <<conv, builder, codegen, exprgen, varcounter, history>>

LexIdentifier ==
    /\ LexerScanning /\ LexerCh \in IdentifierStart
    /\ lexer' = TokenizeStep(lexer)
    /\ UNCHANGED <<conv, builder, codegen, exprgen, varcounter, history>>

LexSymbol ==
    /\ LexerScanning /\ LexerCh \in SymbolChars
    /\ lexer' = TokenizeStep(lexer)
    /\ UNCHANGED <<conv, builder, codegen, exprgen, varcounter, history>>

LexBlank ==
    /\ LexerScanning /\ LexerCh \in Blank
    /\ lexer' = TokenizeStep(lexer)
    /\ UNCHANGED <<conv, builder, codegen, exprgen, varcounter, history>>

LexInvalid ==
    /\ LexerScanning
    /\ LexerCh \notin NumberStart \cup IdentifierStart \cup SymbolChars \cup Blank
    /\ lexer' = TokenizeStep(lexer)
    /\ UNCHANGED <<conv, builder, codegen, exprgen, varcounter, history>>

LexReturn ==
    /\ lexer.result = "running" /\ lexer.pos >= Len(lexer.source)
    /\ lexer' = TokenizeStep(lexer)
    /\ UNCHANGED <<conv, builder, codegen, exprgen, varcounter, history>>

InitLexer ==
    /\ lexer \in {TokenizeStart(line) : line \in LexerInputs}
    /\ conv = ConvIdle
    /\ builder = BuilderIdle
    /\ codegen = CodegenIdle
    /\ exprgen = ExprgenIdle
    /\ varcounter = NewVariableCounter
    /\ history = <<>>

NextLexer == LexNumber \/ LexIdentifier \/ LexSymbol \/ LexBlank \/ LexInvalid \/ LexReturn

SpecLexer == InitLexer /\ [][NextLexer]_vars

(***************************************************************************)
(* The converter run on one token sequence                                 *)
(***************************************************************************)
ConvScanning == ~conv.done /\ conv.next <= Len(conv.expr)

ConvOpenParen ==
    /\ ConvScanning /\ RpnArm(conv) = "OpenParen"
    /\ conv' = RpnStep(conv)
    /\ UNCHANGED <<lexer, builder, codegen, exprgen, varcounter, history>>

ConvCloseParen ==
    /\ ConvScanning /\ RpnArm(conv) = "CloseParen"
    /\ conv' = RpnStep(conv)
    /\ UNCHANGED <<lexer, builder, codegen, exprgen, varcounter, history>>

ConvComma ==
    /\ ConvScanning /\ RpnArm(conv) = "Comma"
    /\ conv' = RpnStep(conv)
    /\ UNCHANGED <<lexer, builder, codegen, exprgen, varcounter, history>>

ConvCallHead ==
    /\ ConvScanning /\ RpnArm(conv) = "CallHead"
    /\ conv' = RpnStep(conv)
    /\ UNCHANGED <<lexer, builder, codegen, exprgen, varcounter, history>>

ConvOperand ==
    /\ ConvScanning /\ RpnArm(conv) = "Operand"
    /\ conv' = RpnStep(conv)
    /\ UNCHANGED <<lexer, builder, codegen, exprgen, varcounter, history>>

ConvOperator ==
    /\ ConvScanning /\ RpnArm(conv) = "Operator"
    /\ conv' = RpnStep(conv)
    /\ UNCHANGED <<lexer, builder, codegen, exprgen, varcounter, history>>

ConvFlush ==
    /\ ~conv.done /\ conv.next > Len(conv.expr)
    /\ conv' = RpnStep(conv)
    /\ UNCHANGED <<lexer, builder, codegen, exprgen, varcounter, history>>

InitConv ==
    /\ conv \in {RpnStart(expr) : expr \in ConverterInputs}
    /\ lexer = LexerIdle
    /\ builder = BuilderIdle
    /\ codegen = CodegenIdle
    /\ exprgen = ExprgenIdle
    /\ varcounter = NewVariableCounter
    /\ history = <<>>

NextConv ==
    \/ ConvOpenParen \/ ConvCloseParen \/ ConvComma \/ ConvCallHead
    \/ ConvOperand \/ ConvOperator \/ ConvFlush

SpecConv == InitConv /\ [][NextConv]_vars

(***************************************************************************)
(* The meaning of an infix token sequence, read directly: the expression   *)
(* tree under the precedence ^ over * / over + -, with + - * / grouping to *)
(* the left and ^ to the right.  A leaf is the operand's token, an inner   *)
(* node is [op |-> operator or call head token, args |-> the subtrees].    *)
(* Equal trees apply the same operations to the same operands in the same  *)
(* order, hence have equal values.                                         *)
(***************************************************************************)
RefPrecedence(t) ==
    CASE t.kind \in {"Add", "Subtract"} -> 1
      [] t.kind \in {"Multiply", "Divide"} -> 2
      [] t.kind = "Exponent" -> 3

RefRightAssociative(t) == t.kind = "Exponent"

RECURSIVE RefExpr(_, _, _), RefPrimary(_, _), RefArgs(_, _, _), RefClimb(_, _, _)
RefPrimary(s, p) ==
    IF s[p].kind = "OpenParen"
    THEN LET r == RefExpr(s, p + 1, 1) IN [tree |-> r.tree, next |-> r.next + 1]
    ELSE IF s[p].kind = "Identifier" /\ p < Len(s) /\ s[p + 1].kind = "OpenParen"
    THEN IF s[p + 2].kind = "CloseParen"
         THEN [tree |-> [op |-> s[p], args |-> <<>>], next |-> p + 3]
         ELSE LET a == RefArgs(s, p + 2, <<>>)
              IN  [tree |-> [op |-> s[p], args |-> a.args], next |-> a.next]
    ELSE [tree |-> s[p], next |-> p + 1]

RefArgs(s, p, acc) ==
    LET r == RefExpr(s, p, 1)
    IN  IF s[r.next].kind = "Comma"
        THEN RefArgs(s, r.next + 1, Append(acc, r.tree))
        ELSE [args |-> Append(acc, r.tree), next |-> r.next + 1]

RefClimb(s, lhs, min) ==
    IF lhs.next <= Len(s) /\ is_operator(s[lhs.next]) /\ RefPrecedence(s[lhs.next]) >= min
    THEN LET op == s[lhs.next]
             rhs == RefExpr(s, lhs.next + 1,
                            IF RefRightAssociative(op) THEN RefPrecedence(op)
                            ELSE RefPrecedence(op) + 1)
         IN  RefClimb(s, [tree |-> [op |-> op, args |-> <<lhs.tree, rhs.tree>>],
                          next |-> rhs.next], min)
    ELSE lhs

RefExpr(s, p, min) == RefClimb(s, RefPrimary(s, p), min)

InfixTree(s) == RefExpr(s, 1, 1).tree

\* The postfix sequence evaluated left to right with a value stack: a Number
\* is pushed, an operator pops its right then its left operand and pushes
\* the result.
RECURSIVE PostfixEval(_, _, _)
PostfixEval(out, i, values) ==
    IF i > Len(out)
    THEN [ok |-> Len(values) = 1, tree |-> IF Len(values) = 1 THEN values[1] ELSE <<>>]
    ELSE IF out[i].kind = "Number" THEN PostfixEval(out, i + 1, Append(values, out[i]))
    ELSE IF is_operator(out[i]) /\ Len(values) >= 2
    THEN LET y == values[Len(values)]
             x == values[Len(values) - 1]
         IN  PostfixEval(out, i + 1,
                         Append(SubSeq(values, 1, Len(values) - 2),
                                [op |-> out[i], args |-> <<x, y>>]))
    ELSE [ok |-> FALSE, tree |-> <<>>]

PostfixTree(out) == PostfixEval(out, 1, <<>>)

Kinds(s) == [i \in 1..Len(s) |-> s[i].kind]

IsArithmetic(expr) ==
    \A i \in 1..Len(expr) : is_number(expr[i]) \/ is_operator(expr[i])
                            \/ expr[i].kind \in {"OpenParen", "CloseParen"}

\* C1: for a well-formed infix sequence of Numbers, operators and balanced
\* parentheses, the output of infix_to_rpn evaluated with a value stack has
\* the value of the infix expression read with the usual precedence and
\* associativity; a - b - c gives a b - c - and a ^ b ^ c gives a b c ^ ^.
C1_RoundTrip ==
    (conv.done /\ IsArithmetic(conv.expr)) =>
        /\ PostfixTree(conv.output) = [ok |-> TRUE, tree |-> InfixTree(conv.expr)]
        /\ Kinds(conv.expr) = <<"Number", "Subtract", "Number", "Subtract", "Number">>
              => conv.output = <<conv.expr[1], conv.expr[3], conv.expr[2],
                                 conv.expr[5], conv.expr[4]>>
        /\ Kinds(conv.expr) = <<"Number", "Exponent", "Number", "Exponent", "Number">>
              => conv.output = <<conv.expr[1], conv.expr[3], conv.expr[5],
                                 conv.expr[4], conv.expr[2]>>

\* a parenthesised difference times a number, (a - b) * c, has been converted
C1_Witness ==
    /\ conv.done
    /\ Kinds(conv.expr) = <<"OpenParen", "Number", "Subtract", "Number", "CloseParen",
                            "Multiply", "Number">>
    /\ Kinds(conv.output) = <<"Number", "Number", "Subtract", "Number", "Multiply">>

\* the positions of the call heads of expr: an Identifier before an OpenParen
CallHeads(expr) ==
    {p \in 1..(Len(expr) - 1) : is_identifier(expr[p]) /\ expr[p + 1].kind = "OpenParen"}

\* the position of the CloseParen that closes the parenthesis open at depth
\* d when position i is reached
RECURSIVE ClosingParen(_, _, _)
ClosingParen(expr, i, d) ==
    IF expr[i].kind = "CloseParen"
    THEN IF d = 1 THEN i ELSE ClosingParen(expr, i + 1, d - 1)
    ELSE IF expr[i].kind = "OpenParen" THEN ClosingParen(expr, i + 1, d + 1)
    ELSE ClosingParen(expr, i + 1, d)

\* the positions of the argument tokens of the call at p that belong in a
\* postfix sequence: its operands, operators and inner call heads
ArgumentTokens(expr, p) ==
    {i \in (p + 2)..(ClosingParen(expr, p + 2, 1) - 1) :
        expr[i].kind \notin {"OpenParen", "CloseParen", "Comma"}}

IsNode(t) == "op" \in DOMAIN t

\* the pairs <<o, p>> where the operator at position o has the value of the
\* call at position p as one of its two operands
RECURSIVE OperandCalls(_)
OperandCalls(t) ==
    IF ~IsNode(t) THEN {}
    ELSE (IF is_operator(t.op)
          THEN {<<At(t.op), At(t.args[i].op)>> :
                   i \in {j \in 1..Len(t.args) :
                            IsNode(t.args[j]) /\ is_identifier(t.args[j].op)}}
          ELSE {})
         \cup UNION {OperandCalls(t.args[i]) : i \in 1..Len(t.args)}

\* C2: for every call f(a1, ..., an), n >= 0, the output of infix_to_rpn has
\* the Identifier f after every token of all its arguments and before every
\* operator that takes the value of the call as an operand.
C2_CallAfterArguments ==
    conv.done =>
        \A p \in CallHeads(conv.expr) :
            \E k \in 1..Len(conv.output) :
                /\ At(conv.output[k]) = p
                /\ \A j \in 1..Len(conv.output) :
                      /\ At(conv.output[j]) \in ArgumentTokens(conv.expr, p) => j < k
                      /\ <<At(conv.output[j]), p>> \in OperandCalls(InfixTree(conv.expr))
                            => k < j

(***************************************************************************)
(* Properties of the lexer                                                 *)
(***************************************************************************)
LexerReturned == lexer.result \in {"ok", "err"}

RefSymbolKind(ch) ==
    CASE ch = "+" -> "Add"
      [] ch = "-" -> "Subtract"
      [] ch = "*" -> "Multiply"
      [] ch = "/" -> "Divide"
      [] ch = "^" -> "Exponent"
      [] ch = "=" -> "Assign"
      [] ch = "," -> "Comma"
      [] ch = "(" -> "OpenParen"
      [] ch = ")" -> "CloseParen"

NotBlank(ch) == ch \notin {" ", "\t"}

\* C5: on a line made only of + - * / ^ = , ( ) and spaces and tabs,
\* tokenize succeeds with exactly one token per non-blank character, of the
\* kind the character maps to, in input order.
C5_SymbolsAndBlanks ==
    (LexerReturned /\ \A i \in 1..Len(lexer.source) :
                          lexer.source[i] \in {"+", "-", "*", "/", "^", "=", ",", "(", ")",
                                               " ", "\t"}) =>
        LET symbols == SelectSeq(lexer.source, NotBlank)
        IN  /\ lexer.result = "ok"
            /\ Len(lexer.tokens) = Len(symbols)
            /\ \A i \in 1..Len(symbols) :
                  lexer.tokens[i] = [kind |-> RefSymbolKind(symbols[i]),
                                     name |-> <<>>, num |-> <<0, 0>>]

\* the line ( tab = has been tokenized to OpenParen Assign
C5_Witness ==
    /\ lexer.result = "ok"
    /\ lexer.source = <<"(", "\t", "=">>
    /\ lexer.tokens = <<OpenParen, Assign>>

\* the claim's valid number: digits with at most one point
RefValidNumber(text) ==
    /\ \A i \in 1..Len(text) : text[i] \in Digit \cup {"."}
    /\ CountOf(text, ".") <= 1
    /\ \E i \in 1..Len(text) : text[i] \in Digit

\* C6: a line whose text is a valid number beginning with any digit 0..9
\* tokenizes to a single Number token, and tokenize never fails with
\* InvalidCharacter on a digit.
C6_EveryDigitStartsANumber ==
    LexerReturned =>
        /\ (lexer.source # <<>> /\ lexer.source[1] \in Digit /\ RefValidNumber(lexer.source))
              => /\ lexer.result = "ok"
                 /\ Len(lexer.tokens) = 1
                 /\ is_number(lexer.tokens[1])
        /\ (lexer.result = "err" /\ lexer.err.kind = "InvalidCharacter")
              => lexer.err.ch \notin Digit

RefIdentifierChar(ch) == ch \in LowerCase \cup UpperCase \cup Digit \cup {"_"}

\* C7: an identifier extends over every immediately following letter, digit
\* or underscore: a line that starts with a letter or underscore and holds
\* only such characters tokenizes to one Identifier carrying the whole text.
C7_IdentifierTakesDigits ==
    (/\ LexerReturned
     /\ lexer.source # <<>>
     /\ lexer.source[1] \in LowerCase \cup UpperCase \cup {"_"}
     /\ \A i \in 1..Len(lexer.source) : RefIdentifierChar(lexer.source[i])) =>
        /\ lexer.result = "ok"
        /\ lexer.tokens = <<Identifier(lexer.source)>>

\* the maximal runs of digits and points of a line, as pairs <<first, last>>
NumberRuns(line) ==
    {r \in (1..Len(line)) \X (1..Len(line)) :
        /\ r[1] <= r[2]
        /\ \A i \in r[1]..r[2] : line[i] \in Digit \cup {"."}
        /\ r[1] = 1 \/ line[r[1] - 1] \notin Digit \cup {"."}
        /\ r[2] = Len(line) \/ line[r[2] + 1] \notin Digit \cup {"."}}

\* the claim's malformed number: two or more points, or a lone point
RefMalformed(text) == CountOf(text, ".") >= 2 \/ text = <<".">>

\* every character of the line can begin or continue a token, or is blank
RefLexable(line) ==
    \A i \in 1..Len(line) :
        RefIdentifierChar(line[i]) \/ line[i] \in {".", " ", "\t"}
        \/ line[i] \in {"+", "-", "*", "/", "^", "=", ",", "(", ")"}

\* C8: when a maximal run of digits and points of a line is not a valid
\* number, tokenize fails for the whole line, returns no tokens, and the
\* error is not InvalidCharacter.
C8_MalformedNumberFails ==
    (/\ LexerReturned
     /\ RefLexable(lexer.source)
     /\ \E r \in NumberRuns(lexer.source) :
            RefMalformed(SubSeq(lexer.source, r[1], r[2]))) =>
        /\ lexer.result = "err"
        /\ lexer.tokens = <<>>
        /\ lexer.err.kind # "InvalidCharacter"

(***************************************************************************)
(* Inputs of the statement builder: the sources of at most MaxLines lines, *)
(* each line a text of at most MaxLineChars characters or one of the       *)
(* sample lines.                                                           *)
(***************************************************************************)
MaxLines == 2

MaxLineChars == 2

BuilderChars == {"1", "x", "+", "=", " ", "}"}

SampleLines ==
    { <<"1", "+", "2">>,
      <<"3", "-", "4">>,
      <<"v", "a", "r", "=", "3">>,
      <<"f", "(", "x", ")", " ", "=", " ", "x">>,
      <<"f", "(", "x", ",", "y", ",", "x", ")", "=", "x", "+", "y">>,
      <<"f", "u", "n", "c", "(", "x", ",", "3", ")">>,
      <<"x", "=", "1", "=", "2">>,
      <<"(", "x", ")", "=", "1">>,
      <<"1", ".", ".", "2">>,
      <<"\t">> }

BuilderLines == SeqsUpTo(BuilderChars, MaxLineChars) \cup SampleLines

\* the lines joined by newlines
RECURSIVE Join(_)
Join(lines) ==
    IF Len(lines) = 1 THEN lines[1]
    ELSE Join(Front(lines)) \o <<"\n">> \o Last(lines)

BuilderInputs == {Join(lines) : lines \in UNION {[1..k -> BuilderLines] : k \in 1..MaxLines}}

(***************************************************************************)
(* The statement builder run on one source                                 *)
(***************************************************************************)
BuilderLooping == builder.result = "running" /\ builder.line_num < Len(builder.lines)

BuildLexError ==
    /\ BuilderLooping /\ ParseArm(builder) = "LexError"
    /\ builder' = ParseStep(builder)
    /\ UNCHANGED <<lexer, conv, codegen, exprgen, varcounter, history>>

BuildDeclaration ==
    /\ BuilderLooping /\ ParseArm(builder) = "Declaration"
    /\ builder' = ParseStep(builder)
    /\ UNCHANGED <<lexer, conv, codegen, exprgen, varcounter, history>>

BuildInvalidAssignment ==
    /\ BuilderLooping /\ ParseArm(builder) = "InvalidAssignment"
    /\ builder' = ParseStep(builder)
    /\ UNCHANGED <<lexer, conv, codegen, exprgen, varcounter, history>>

BuildExpression ==
    /\ BuilderLooping /\ ParseArm(builder) = "Expression"
    /\ builder' = ParseStep(builder)
    /\ UNCHANGED <<lexer, conv, codegen, exprgen, varcounter, history>>

BuildReturn ==
    /\ builder.result = "running" /\ builder.line_num >= Len(builder.lines)
    /\ builder' = ParseStep(builder)
    /\ UNCHANGED <<lexer, conv, codegen, exprgen, varcounter, history>>

InitBuilder ==
    /\ builder \in {ParseStart(source) : source \in BuilderInputs}
    /\ lexer = LexerIdle
    /\ conv = ConvIdle
    /\ codegen = CodegenIdle
    /\ exprgen = ExprgenIdle
    /\ varcounter = NewVariableCounter
    /\ history = <<>>

NextBuilder ==
    BuildLexError \/ BuildDeclaration \/ BuildInvalidAssignment \/ BuildExpression \/ BuildReturn

SpecBuilder == InitBuilder /\ [][NextBuilder]_vars

(***************************************************************************)
(* Properties of the statement builder                                     *)
(***************************************************************************)
BuilderReturned == builder.result \in {"ok", "err"}

\* the pieces of the source between newlines, read off the text directly
RefLineStarts(text) == {1} \cup {i + 1 : i \in {j \in 1..Len(text) : text[j] = "\n"}}

\* the line that starts at start holds only spaces and tabs up to its newline
RefIsBlankLine(text, start) ==
    \A i \in start..Len(text) :
        (\A j \in start..i : text[j] # "\n") => text[i] \in {" ", "\t"}

RefNonBlankLines(text) == {s \in RefLineStarts(text) : ~RefIsBlankLine(text, s)}

\* C9: parse returns exactly one Statement per non-blank source line; an
\* empty or whitespace-only line contributes no Statement.
C9_OneStatementPerNonBlankLine ==
    builder.result = "ok" =>
        Len(builder.statements) = Cardinality(RefNonBlankLines(builder.source))

\* C10: whenever parse fails, the error is annotated with the 0-based
\* number of the first failing line.
C10_ErrorsCarryLineNumber ==
    builder.result = "err" => builder.err.context = <<builder.line_num>>

\* the tokens of line i of the source (its first line is line 1)
LineTokens(i) == tokenize(builder.lines[i])

\* the tokens before and after the first Assign of a token sequence that has one
RefFirstAssign(tokens) ==
    CHOOSE i \in 1..Len(tokens) :
        tokens[i].kind = "Assign" /\ \A j \in 1..(i - 1) : tokens[j].kind # "Assign"

RefLeft(tokens) == SubSeq(tokens, 1, RefFirstAssign(tokens) - 1)

RefRight(tokens) == SubSeq(tokens, RefFirstAssign(tokens) + 1, Len(tokens))

RefHasAssign(tokens) == \E i \in 1..Len(tokens) : tokens[i].kind = "Assign"

\* the names of the Identifier tokens of a sequence, every occurrence, in order
RECURSIVE RefIdentifierNames(_)
RefIdentifierNames(tokens) ==
    IF tokens = <<>> THEN <<>>
    ELSE IF tokens[1].kind = "Identifier"
    THEN <<tokens[1].name>> \o RefIdentifierNames(Tail(tokens))
    ELSE RefIdentifierNames(Tail(tokens))

\* C11: for a line that contains an Assign and whose first token is an
\* Identifier, parse yields a Declaration named by that identifier, whose
\* parameters are all later Identifiers before the first Assign, in order
\* with every occurrence kept, and whose body is the postfix conversion of
\* the tokens after the first Assign.
C11_DeclarationShape ==
    builder.result = "ok" =>
        \A i \in 1..Len(builder.lines) :
            (/\ LineTokens(i).ok
             /\ RefHasAssign(LineTokens(i).val)
             /\ LineTokens(i).val[1].kind = "Identifier") =>
                /\ i <= Len(builder.statements)
                /\ builder.statements[i] =
                      [type |-> "Declaration",
                       name |-> LineTokens(i).val[1].name,
                       args |-> RefIdentifierNames(Tail(RefLeft(LineTokens(i).val))),
                       body |-> infix_to_rpn(RefRight(LineTokens(i).val)).val]

\* f(x,y,x)=x+y has been parsed to a Declaration with the parameters x, y, x
C11_Witness ==
    /\ builder.result = "ok"
    /\ builder.source = <<"f", "(", "x", ",", "y", ",", "x", ")", "=", "x", "+", "y">>
    /\ Len(builder.statements) = 1
    /\ builder.statements[1].type = "Declaration"
    /\ builder.statements[1].name = <<"f">>
    /\ builder.statements[1].args = <<<<"x">>, <<"y">>, <<"x">>>>
    /\ Kinds(builder.statements[1].body) = <<"Identifier", "Identifier", "Add">>

\* line i lexes, and is an expression or has an Identifier first
RefLineAccepted(i) ==
    /\ LineTokens(i).ok
    /\ RefHasAssign(LineTokens(i).val) => LineTokens(i).val[1].kind = "Identifier"

\* line i lexes and has an Assign with nothing, or no Identifier, first
RefBadAssignment(i) ==
    /\ LineTokens(i).ok
    /\ RefHasAssign(LineTokens(i).val)
    /\ \/ RefLeft(LineTokens(i).val) = <<>>
       \/ RefLeft(LineTokens(i).val)[1].kind # "Identifier"

\* C12: for a line with an Assign whose tokens before the first Assign are
\* empty or start with a token that is not an Identifier, parse fails with
\* InvalidAssignment and returns no statements, also after valid lines.
C12_InvalidAssignment ==
    (/\ BuilderReturned
     /\ \E i \in 1..Len(builder.lines) :
           RefBadAssignment(i) /\ \A j \in 1..(i - 1) : RefLineAccepted(j)) =>
        /\ builder.result = "err"
        /\ builder.err.kind = "InvalidAssignment"
        /\ builder.statements = <<>>

\* parse has failed on the second line, 1=, after the valid line x=
C12_Witness ==
    /\ builder.result = "err"
    /\ builder.source = <<"x", "=", "\n", "1", "=">>
    /\ builder.line_num = 1
    /\ builder.err.kind = "InvalidAssignment"

(***************************************************************************)
(* Inputs of the code generator: at most MaxStatements statements, each a  *)
(* sample Declaration or an Expression of at most MaxBodyLen tokens.       *)
(***************************************************************************)
MaxStatements == 2

MaxBodyLen == 3

BodyTokens == {Number(<<1, 0>>), Identifier(<<"x">>), Add, Multiply}

CodegenStatements ==
    {Expression(body) : body \in SeqsUpTo(BodyTokens, MaxBodyLen)}
    \cup {Declaration(<<"f">>, <<<<"x">>>>, <<Identifier(<<"x">>)>>)}

CodegenInputs == SeqsUpTo(CodegenStatements, MaxStatements)

\* the instructions the unbound names of the Expression arm may stand for
UnboundIdentifiers(st) == {FormatTemp(n) : n \in 0..(st.varcounter.tempcount + 1)}

UnboundOperations(st) ==
    {OperationCall(current_temp(st.varcounter)),
     OperationAdd(current_temp(st.varcounter), current_temp(st.varcounter))}

(***************************************************************************)
(* The code generator run on one list of statements                        *)
(***************************************************************************)
CodegenLooping == codegen.result = "running" /\ codegen.next <= Len(codegen.statements)

CompileDeclaration ==
    /\ CodegenLooping /\ codegen.statements[codegen.next].type = "Declaration"
    /\ codegen' = CompileDeclarationStep(codegen)
    /\ UNCHANGED <<lexer, conv, builder, exprgen, varcounter, history>>

CompileExpression ==
    /\ CodegenLooping /\ codegen.statements[codegen.next].type = "Expression"
    /\ \E identifier \in UnboundIdentifiers(codegen), operation \in UnboundOperations(codegen) :
          codegen' = CompileExpressionStep(codegen, identifier, operation)
    /\ UNCHANGED <<lexer, conv, builder, exprgen, varcounter, history>>

CompileReturn ==
    /\ codegen.result = "running" /\ codegen.next > Len(codegen.statements)
    /\ codegen' = CompileReturnStep(codegen)
    /\ UNCHANGED <<lexer, conv, builder, exprgen, varcounter, history>>

InitCodegen ==
    /\ codegen \in {CompileStart(statements) : statements \in CodegenInputs}
    /\ lexer = LexerIdle
    /\ conv = ConvIdle
    /\ builder = BuilderIdle
    /\ exprgen = ExprgenIdle
    /\ varcounter = NewVariableCounter
    /\ history = <<>>

NextCodegen == CompileDeclaration \/ CompileExpression \/ CompileReturn

SpecCodegen == InitCodegen /\ [][NextCodegen]_vars

(***************************************************************************)
(* Properties of the code generator                                        *)
(***************************************************************************)
CodegenReturned == codegen.result \in {"ok", "err"}

\* the number of values a value stack holds after the postfix sequence, or
\* -1 when an operator finds fewer than two
RECURSIVE RefPostfixDepth(_)
RefPostfixDepth(body) ==
    IF body = <<>> THEN 0
    ELSE LET d == RefPostfixDepth(Front(body))
         IN  IF d < 0 THEN -1
             ELSE IF Last(body).kind \in {"Number", "Identifier"} THEN d + 1
             ELSE IF is_operator(Last(body)) /\ d >= 2 THEN d - 1
             ELSE -1

RefWellFormedPostfix(body) == RefPostfixDepth(body) = 1

RefOperatorCount(body) == Len(SelectSeq(body, is_operator))

RECURSIVE RefTotalOperators(_)
RefTotalOperators(statements) ==
    IF statements = <<>> THEN 0
    ELSE RefTotalOperators(Front(statements)) + RefOperatorCount(Last(statements).body)

\* C3: compiling well-formed postfix Expressions over Number literals
\* succeeds and appends exactly one instruction per binary operator to the
\* entry function; no NameError or OperandError is raised.
C3_OneInstructionPerOperator ==
    (/\ CodegenReturned
     /\ codegen.statements # <<>>
     /\ \A i \in 1..Len(codegen.statements) :
           /\ codegen.statements[i].type = "Expression"
           /\ RefWellFormedPostfix(codegen.statements[i].body)
           /\ \A j \in 1..Len(codegen.statements[i].body) :
                 ~is_identifier(codegen.statements[i].body[j])) =>
        /\ codegen.result = "ok"
        /\ Len(codegen.main_func) = RefTotalOperators(codegen.statements)
        /\ codegen.err.kind \notin {"NameError", "OperandError"}

\* the first Identifier of a token sequence that has one
RefFirstIdentifier(body) ==
    body[CHOOSE i \in 1..Len(body) :
            /\ is_identifier(body[i])
            /\ \A j \in 1..(i - 1) : ~is_identifier(body[j])]

\* C4: compiling an Expression whose postfix body references an identifier
\* with no assigned version fails with NameError carrying that identifier's
\* name, and with no other error.
C4_UndeclaredIdentifierIsNameError ==
    (/\ CodegenReturned
     /\ codegen.statements # <<>>
     /\ codegen.statements[1].type = "Expression"
     /\ RefWellFormedPostfix(codegen.statements[1].body)
     /\ \E j \in 1..Len(codegen.statements[1].body) :
           is_identifier(codegen.statements[1].body[j])) =>
        /\ codegen.result = "err"
        /\ codegen.err.kind = "NameError"
        /\ codegen.err.name = RefFirstIdentifier(codegen.statements[1].body).name

(***************************************************************************)
(* compile_expr run on one postfix stream, with a new VariableCounter      *)
(***************************************************************************)
MaxExprLen == 3

ExprTokens ==
    {Number(<<1, 0>>), Identifier(<<"x">>), Add, Exponent, OpenParen}

ExprInputs == SeqsUpTo(ExprTokens, MaxExprLen)

ExprLooping == exprgen.result = "running" /\ exprgen.next <= Len(exprgen.expr)

ExprOperator ==
    /\ ExprLooping /\ is_operator(exprgen.expr[exprgen.next])
    /\ exprgen' = CompileExprStep(exprgen)
    /\ UNCHANGED <<lexer, conv, builder, codegen, varcounter, history>>

ExprOther ==
    /\ ExprLooping /\ ~is_operator(exprgen.expr[exprgen.next])
    /\ exprgen' = CompileExprStep(exprgen)
    /\ UNCHANGED <<lexer, conv, builder, codegen, varcounter, history>>

ExprReturn ==
    /\ exprgen.result = "running" /\ exprgen.next > Len(exprgen.expr)
    /\ exprgen' = CompileExprStep(exprgen)
    /\ UNCHANGED <<lexer, conv, builder, codegen, varcounter, history>>

InitExprgen ==
    /\ exprgen \in {CompileExprStart(expr, NewVariableCounter) : expr \in ExprInputs}
    /\ lexer = LexerIdle
    /\ conv = ConvIdle
    /\ builder = BuilderIdle
    /\ codegen = CodegenIdle
    /\ varcounter = NewVariableCounter
    /\ history = <<>>

NextExprgen == ExprOperator \/ ExprOther \/ ExprReturn

SpecExprgen == InitExprgen /\ [][NextExprgen]_vars

\* C17: compile_expr returns Ok only for an empty postfix stream: on every
\* non-empty stream it fails at the first token, with OperandError when
\* that token is an operator and with InvalidToken carrying the token
\* otherwise; it never emits an instruction or advances the temporary
\* counter.
C17_OnlyEmptyStreamCompiles ==
    /\ exprgen.compiled = <<>>
    /\ exprgen.counter.tempcount = 0
    /\ exprgen.result \in {"ok", "err"} =>
          /\ exprgen.result = "ok" <=> exprgen.expr = <<>>
          /\ exprgen.expr # <<>> =>
                /\ exprgen.next = 1
                /\ exprgen.err.kind =
                      IF exprgen.expr[1].kind \in {"Add", "Subtract", "Multiply",
                                                   "Divide", "Exponent"}
                      THEN "OperandError" ELSE "InvalidToken"
                /\ exprgen.err.kind = "InvalidToken" => exprgen.err.token = exprgen.expr[1]

\* compile_expr has failed on the postfix stream of 1 + 1 at its first token
C17_Witness ==
    /\ exprgen.result = "err"
    /\ Kinds(exprgen.expr) = <<"Number", "Number", "Add">>
    /\ exprgen.err.kind = "InvalidToken"
    /\ exprgen.err.token = exprgen.expr[1]

(***************************************************************************)
(* A VariableCounter under any sequence of at most MaxCalls calls; history *)
(* records each call and what it returned.                                 *)
(***************************************************************************)
MaxCalls == 4

CounterIdentifiers == {<<"x">>, <<"y">>}

Called(op, identifier, ok, name) ==
    [op |-> op, identifier |-> identifier, ok |-> ok, name |-> name]

CallNextVar ==
    /\ Len(history) < MaxCalls
    /\ \E identifier \in CounterIdentifiers :
          LET r == next_var(varcounter, identifier)
          IN  /\ varcounter' = r.counter
              /\ history' = Append(history, Called("next_var", identifier, TRUE, r.name))
    /\ UNCHANGED <<lexer, conv, builder, codegen, exprgen>>

CallGet ==
    /\ Len(history) < MaxCalls
    /\ \E identifier \in CounterIdentifiers :
          LET r == get(varcounter, identifier)
          IN  history' = Append(history, Called("get", identifier, r.ok, r.name))
    /\ UNCHANGED <<lexer, conv, builder, codegen, exprgen, varcounter>>

CallNextTemp ==
    /\ Len(history) < MaxCalls
    /\ LET r == next_temp(varcounter)
       IN  /\ varcounter' = r.counter
           /\ history' = Append(history, Called("next_temp", <<>>, TRUE, r.name))
    /\ UNCHANGED <<lexer, conv, builder, codegen, exprgen>>

CallCurrentTemp ==
    /\ Len(history) < MaxCalls
    /\ history' = Append(history, Called("current_temp", <<>>, TRUE, current_temp(varcounter)))
    /\ UNCHANGED <<lexer, conv, builder, codegen, exprgen, varcounter>>

InitCounter ==
    /\ varcounter = NewVariableCounter
    /\ history = <<>>
    /\ lexer = LexerIdle
    /\ conv = ConvIdle
    /\ builder = BuilderIdle
    /\ codegen = CodegenIdle
    /\ exprgen = ExprgenIdle

NextCounter == CallNextVar \/ CallGet \/ CallNextTemp \/ CallCurrentTemp

SpecCounter == InitCounter /\ [][NextCounter]_vars

\* the calls of op in the history, as positions
CallsOf(op) == {i \in 1..Len(history) : history[i].op = op}

\* C13: declaring the same identifier again with next_var returns a name
\* different from every name next_var returned for it before, so no
\* versioned name is handed out for assignment twice.
C13_RedeclarationIsFresh ==
    \A i, j \in CallsOf("next_var") :
        i < j => history[i].name # history[j].name

\* the temporary counter counts the next_temp calls: it starts at 0 and
\* only next_temp changes it, by one
TempCountsNextTemp == varcounter.tempcount = Cardinality(CallsOf("next_temp"))

\* no two next_temp calls returned the same name
TempNamesFresh ==
    \A i, j \in CallsOf("next_temp") : i < j => history[i].name # history[j].name

\* the destinations of the instructions of the entry function differ
EntryDestinationsDistinct ==
    \A i, j \in 1..Len(codegen.main_func) :
        i < j => codegen.main_func[i].identifier # codegen.main_func[j].identifier

OpenParens(stack) == Cardinality({i \in 1..Len(stack) : stack[i].kind = "OpenParen"})

\* C15: on a Comma token infix_to_rpn leaves the nearest OpenParen on the
\* stack: the stack holds as many OpenParen entries after the Comma step
\* as before it.
C15_CommaKeepsOpenParen ==
    [][ConvComma => OpenParens(conv'.stack) = OpenParens(conv.stack)]_vars

\* C16: for a token sequence with balanced parentheses the output of
\* infix_to_rpn holds no OpenParen, CloseParen or Comma token.
C16_OutputHasNoGrouping ==
    conv.done =>
        \A k \in 1..Len(conv.output) :
            conv.output[k].kind \notin {"OpenParen", "CloseParen", "Comma"}

=============================================================================
